---- MODULE Spec2Model ----
(***************************************************************************)
(* Model of `see` (src/main.go): the follow engine of see().               *)
(*                                                                         *)
(* The worker goroutine runs readNew() once (main.go:577) and then the     *)
(* select loop (main.go:579-605).  readNew is split at its system calls    *)
(* (os.Stat, os.Open, ReadAt), because the writer of the followed file     *)
(* runs concurrently with it.  Bytes are small integers, 10 is '\n'.       *)
(***************************************************************************)
EXTENDS Integers, Sequences, FiniteSets, TLC

\* ------------------------------------------------------------ bounds ----
MaxInit == 1      \* longest file content when follow mode is entered
MaxWrite == 1     \* bytes a rotating writer appends during one run
MaxAppend == 3    \* bytes an append-only writer appends during one run
MaxChunk == 2     \* largest read-buffer size tried (main.go:534, scaled down)
LiveAppend == 1   \* bytes the writer appends in the runs checked for liveness
MaxFile == 6      \* longest file given to the initial selection
MaxN == 2         \* largest -ns / -ne tried
MaxLine == 2      \* sc.Buffer(buf, max): token length Scan refuses (scaled down)
RunFile == 2      \* longest file at the start of a whole run
RunN == 1         \* largest -ns / -ne tried in a whole run
RenderLen == 3    \* longest line given to renderLine
GrowAppend == 2   \* bytes the writer appends during a run with -t
LinesAppend == 3  \* bytes of whole lines the writer appends during a run with -t
AddrLen == 7      \* longest line of digits and dots given to colorizeGeneric

\* -------------------------------------------------------- constants ----
NL == 10
LetterA == 97
LetterB == 98
LetterE == 101    \* 'e'
LetterR == 114    \* 'r'
LetterM == 109    \* 'm', the last byte of an ANSI color code
Digit1 == 49      \* '1'
Space == 32       \* ' '
ESC == 27         \* "\x1b", the first byte of an ANSI color code
Dot == 46         \* '.'

\* the code tells bytes apart only as '\n' or not, the filter as `b` or not
Byte == {NL, LetterB}
Patterns == {"", "b"}      \* filterPtr: no filter, or the regexp `b`
\* the bytes of the files given to the initial read, and its filters: none,
\* the regexp `b`, the regexp `.`
FileByte == {NL, LetterA, LetterB}
InitialPatterns == {"", "b", "."}
NoSnap == [none |-> TRUE]

VARIABLES
  file,       \* content of the file the path names (<<>> while it is missing)
  exists,     \* whether the path names a file
  rx,         \* the filter pattern, "" when rx == nil
  chunk,      \* len(buf) of readNew
  offset,     \* see(): offset
  carry,      \* see(): carry
  cur,        \* readNew(): cur
  start,      \* readNew(): start
  fd,         \* readNew(): f -- "none", "live" (the path's file) or "stale"
  fdData,     \* content of the unlinked file a stale handle refers to
  spin,       \* parity of the iterations of the read loop that read nothing
  pc,         \* position of the worker goroutine
  events,     \* watcher.Events: the event waiting to be received, if any
  cancelled,  \* ctx.Done() is closed
  out,        \* lines printed by readNew, in order
  shutdown,   \* "Shutting down see" has been printed
  tailPtr,    \* main(): *tailPtr, the flag -t
  ns,         \* main(): *nsPtr
  ne,         \* main(): *nePtr
  scanOff,    \* bytes of the file the scanner of the initial read has consumed
  ring,       \* printLastNFiltered(): ring
  size,       \* printLastNFiltered(): size
  idx,        \* printLastNFiltered(): idx
  count,      \* printFirstNFiltered(): count
  initErr,    \* the error that ended the initial read, "none" if none
  eofSeen,    \* the scanner of the initial read has met the end of the file
  status,     \* the status lines printed, each with Len(out) at that time
  \* history variables, read only by the properties
  off0,       \* offset when follow mode was entered
  left,       \* bytes the writer will still append
  nRead,      \* bytes appended to carry so far
  dirty,      \* the file changed since the current/last drain began
  quiet,      \* completed drains in a row with no file change, capped at 2
  snap,       \* offset, carry and output after the first of those drains
  out0,       \* Len(out) when the current/last drain began
  carry0,     \* carry when the current/last drain began
  via,        \* what started the current/last drain
  truncSeen,  \* the current/last drain observed cur < offset
  fault,      \* failure of the current/last drain: none, stat, open, read
  lastGood,   \* size observed by the last drain that ended without failure
  replaced,   \* the path names a file created or emptied during follow
  outRepl,    \* Len(out) when that happened
  touched,    \* the program has made a file-system call on the path
  raw,        \* renderLine(): raw, the line to show
  enableColor,\* see(): enableColor
  shown       \* the bytes renderLine / colorizeGeneric returned

vars == <<file, exists, rx, chunk, offset, carry, cur, start, fd, fdData,
          spin, pc, events, cancelled, out, shutdown, off0, left, nRead, dirty, quiet,
          snap, out0, carry0, via, truncSeen, fault, lastGood, replaced,
          outRepl, tailPtr, ns, ne, scanOff, ring, size, idx, count, initErr,
          touched, raw, enableColor, shown, eofSeen, status>>

\* groups of variables, for the UNCHANGED clauses
flags == <<tailPtr, ns, ne>>
scanner == <<scanOff, ring, size, idx, count, initErr, eofSeen>>
render == <<raw, enableColor, shown>>
config == <<rx, chunk, off0, flags, scanner, touched, render, status>>
follow == <<offset, carry, out, nRead>>
locals == <<cur, start, fd, fdData, spin>>
drainHist == <<out0, carry0, truncSeen, fault>>
quietHist == <<dirty, quiet, snap>>
replHist == <<replaced, outRepl>>
drainBook == <<dirty, out0, carry0, via, truncSeen, fault>>
\* what no step before follow mode changes
asleep == <<file, exists, rx, chunk, carry, nRead, locals, events, left,
            quiet, snap, replHist, shutdown>>

\* ------------------------------------------------------ pure helpers ----
Min(a, b) == IF a < b THEN a ELSE b

\* a status line printed when n lines of the file had been printed
Status(t, n) == [text |-> t, at |-> n]
Max(a, b) == IF a > b THEN a ELSE b

SeqsUpTo(S, n) == UNION {[1..k -> S] : k \in 0..n}

\* rx == nil || rx.MatchString(line)
Matches(p, line) ==
  \/ p = ""
  \/ p = "b" /\ \E i \in 1..Len(line) : line[i] = LetterB
  \/ p = "." /\ Len(line) > 0

\* main.go:547-553: index of the first '\n' of c, 0 for nl == -1
IndexNL(c) ==
  IF \E i \in 1..Len(c) : c[i] = NL
  THEN CHOOSE i \in 1..Len(c) : c[i] = NL /\ \A j \in 1..(i-1) : c[j] # NL
  ELSE 0

\* main.go:546-562: take the complete lines off the front of carry
RECURSIVE ExtractLines(_, _)
ExtractFlush(c, acc) ==
  LET nl == IndexNL(c) IN
  IF nl = 0
  THEN [lines |-> IF c = <<>> THEN acc ELSE Append(acc, c), carry |-> <<>>]
  ELSE ExtractLines(SubSeq(c, nl + 1, Len(c)), Append(acc, SubSeq(c, 1, nl - 1)))
ExtractLines(c, acc) ==
  LET nl == IndexNL(c) IN
  IF nl = 0
  THEN [lines |-> acc, carry |-> c]
  ELSE ExtractLines(SubSeq(c, nl + 1, Len(c)), Append(acc, SubSeq(c, 1, nl - 1)))

\* main.go:559-561: the lines that are printed
PrintedAll(p, lines) == lines
Printed(p, lines) == SelectSeq(lines, LAMBDA l : Matches(p, l))

\* main.go:539-542
WantFull(c, s, ch) == ch
Want(c, s, ch) == Min(c - s, ch)

\* main.go:520-523: carry after the truncation test
CarryKept(c, off, ca) == ca
CarryDropped(c, off, ca) == <<>>
CarryAfterStat(c, off, ca) == IF c < off THEN <<>> ELSE ca

\* main.go:520-522: offset after the truncation test
OffsetKept(c, off) == off
OffsetAfterStat(c, off) == IF c < off THEN 0 ELSE off

\* main.go:537
StartZero(off) == 0
StartAt(off) == off

\* main.go:569
OffsetStale(c, off) == off
FinalOffset(c, off) == c

\* what ReadAt sees through the handle f (main.go:528, 543)
Handle == IF fd = "live" THEN file ELSE fdData

\* main.go:515, 530, 566: where a failed drain leaves the worker
AfterErrorExit == "done"
AfterError == "select"

\* main.go:602-603: what a tick of the ticker starts
TickSkipped == "select"
TickNext == "stat"

\* ------------------------------------------------------------- Init ----
\* The state at main.go:577: the initial read is over, the banner is
\* printed, the watcher is subscribed, offset is the size read so far, and
\* the writer will append at most n more bytes.
Start(n) ==
  /\ rx \in Patterns
  /\ chunk \in 1..MaxChunk
  /\ file \in SeqsUpTo(Byte, MaxInit)
  /\ exists = TRUE
  /\ offset = Len(file)
  /\ carry = <<>>
  /\ cur = 0
  /\ start = 0
  /\ fd = "none"
  /\ fdData = <<>>
  /\ spin = FALSE
  /\ pc = "stat"
  /\ events = <<>>
  /\ cancelled = FALSE
  /\ out = <<>>
  /\ shutdown = FALSE
  /\ off0 = offset
  /\ left = n
  /\ nRead = 0
  /\ dirty = FALSE
  /\ quiet = 0
  /\ snap = NoSnap
  /\ out0 = 0
  /\ carry0 = <<>>
  /\ via = "start"
  /\ truncSeen = FALSE
  /\ fault = "none"
  /\ lastGood = offset
  /\ replaced = FALSE
  /\ outRepl = 0
  /\ tailPtr = TRUE
  /\ ns = 0
  /\ ne = 0
  /\ scanOff = Len(file)
  /\ ring = <<>>
  /\ size = 0
  /\ idx = 0
  /\ count = 0
  /\ initErr = "none"
  /\ eofSeen = TRUE
  /\ status = <<Status("reading", 0), Status("tail", 0)>>
  /\ raw = <<>>
  /\ enableColor = FALSE
  /\ shown = <<>>
  /\ touched = TRUE

Init == Start(MaxWrite)
InitAppend == Start(MaxAppend)
InitLive == Start(LiveAppend)

\* ------------------------------------------- history book-keeping ----
\* a change of the file: the drains run so far are no longer "quiet"
Changed ==
  /\ dirty' = TRUE
  /\ quiet' = 0
  /\ snap' = NoSnap

\* the worker calls readNew(), woken by src
BeginDrain(src) ==
  /\ dirty' = FALSE
  /\ out0' = Len(out)
  /\ carry0' = carry
  /\ via' = src
  /\ truncSeen' = FALSE
  /\ fault' = "none"
  /\ UNCHANGED <<quiet, snap, lastGood>>

\* readNew() returns; kind is the failure it met, sz the size it observed,
\* off, ca and n the offset, the carry and the number of lines printed
EndDrain(kind, sz, off, ca, n) ==
  /\ fault' = kind
  /\ lastGood' = IF kind = "none" THEN sz ELSE lastGood
  /\ quiet' = IF dirty THEN 0 ELSE Min(quiet + 1, 2)
  /\ snap' = IF dirty THEN NoSnap
             ELSE IF quiet = 0
                  THEN [off |-> off, carry |-> ca, n |-> n,
                        emitted |-> n - out0]
                  ELSE snap
  /\ cur' = 0
  /\ start' = 0
  /\ fd' = "none"
  /\ fdData' = <<>>
  /\ spin' = FALSE
  /\ UNCHANGED <<dirty, out0, carry0, via>>

\* main.go:496-507: the watcher exists from its creation in see() on
Watching ==
  pc \notin {"main", "precheck", "see", "scan", "size", "tailcheck", "watch",
             "fatal", "exit"}

\* fsnotify delivers the event unless it is missed, or coalesced with the
\* one that still waits on the channel
Notify(op, delivered) ==
  events' = IF delivered /\ events = <<>> /\ Watching
            THEN Append(events, [name |-> "base", op |-> op])
            ELSE events

\* ------------------------------------------------- the environment ----
\* the writer appends one byte to the file
AppendByte ==
  /\ exists
  /\ left > 0
  /\ \E b \in Byte, d \in BOOLEAN :
       /\ file' = Append(file, b)
       /\ Notify("write", d)
  /\ left' = left - 1
  /\ Changed
  /\ UNCHANGED <<exists, config, follow, locals, pc, cancelled, shutdown,
                 drainHist, via, lastGood, replHist>>

\* the file is truncated in place to k bytes (copytruncate rotation)
Truncate ==
  /\ exists
  /\ \E k \in 0..(Len(file) - 1), d \in BOOLEAN :
       /\ file' = SubSeq(file, 1, k)
       /\ Notify("write", d)
       /\ replaced' = IF k = 0 THEN TRUE ELSE replaced
       /\ outRepl' = IF k = 0 THEN Len(out) ELSE outRepl
  /\ Changed
  /\ UNCHANGED <<exists, config, follow, locals, pc, cancelled, shutdown,
                 left, drainHist, via, lastGood>>

\* the file is renamed away or removed; an open handle keeps the old file
Remove ==
  /\ exists
  /\ exists' = FALSE
  /\ file' = <<>>
  /\ fd' = IF fd = "live" THEN "stale" ELSE fd
  /\ fdData' = IF fd = "live" THEN file ELSE fdData
  /\ \E op \in {"remove", "rename"}, d \in BOOLEAN : Notify(op, d)
  /\ replaced' = FALSE
  /\ Changed
  /\ UNCHANGED <<config, follow, cur, start, spin, pc, cancelled, shutdown,
                 left, drainHist, via, lastGood, outRepl>>

\* a new, empty file of the same name is created
Create ==
  /\ ~exists
  /\ exists' = TRUE
  /\ file' = <<>>
  /\ \E d \in BOOLEAN : Notify("create", d)
  /\ replaced' = TRUE
  /\ outRepl' = Len(out)
  /\ Changed
  /\ UNCHANGED <<config, follow, locals, pc, cancelled, shutdown, left,
                 drainHist, via, lastGood>>

\* the mode or times of the file change: a Chmod event, same content
Chmod ==
  /\ exists
  /\ events = <<>>
  /\ events' = Append(events, [name |-> "base", op |-> "chmod"])
  /\ UNCHANGED <<file, exists, config, follow, locals, pc, cancelled,
                 shutdown, left, drainHist, via, quietHist, lastGood,
                 replHist>>

\* another file of the watched directory changes
ForeignEvent ==
  /\ events = <<>>
  /\ events' = Append(events, [name |-> "other", op |-> "write"])
  /\ UNCHANGED <<file, exists, config, follow, locals, pc, cancelled,
                 shutdown, left, drainHist, via, quietHist, lastGood,
                 replHist>>

\* main.go:187-191: the interrupt signal arrives once signal.Notify was
\* called and while the process runs, and cancel() is called
Cancel ==
  /\ ~cancelled
  /\ pc \notin {"main", "precheck", "fatal", "exit", "done"}
  /\ cancelled' = TRUE
  /\ UNCHANGED <<file, exists, config, follow, locals, pc, events, shutdown,
                 left, drainHist, via, quietHist, lastGood, replHist>>

\* ------------------------------------------------------ the worker ----
\* main.go:585: `evt := <-watcher.Events` takes the one event at the head
\* of the channel
ReceivedNone(q) == q
Received(q) == Tail(q)

\* main.go:586: filepath.Base(evt.Name) == base
SameBaseAlways(e) == TRUE
SameBase(e) == e.name = "base"

\* main.go:590-597: the events that are followed by the 80 ms sleep are
\* those that are not Write or Chmod and are Rename, Remove or Create
DelayedNever(op) == FALSE
Delayed(op) == op \in {"rename", "remove", "create"}

\* main.go:581-583
Shutdown ==
  /\ pc = "select"
  /\ cancelled
  /\ shutdown' = TRUE
  /\ pc' = "done"
  /\ UNCHANGED <<file, exists, config, follow, locals, events, cancelled,
                 left, drainHist, via, quietHist, lastGood, replHist>>

\* main.go:585-588: an event for another basename
IgnoreEvent ==
  /\ pc = "select"
  /\ events # <<>>
  /\ ~SameBase(Head(events))
  /\ events' = Received(events)
  /\ UNCHANGED <<file, exists, config, follow, locals, pc, cancelled,
                 shutdown, left, drainHist, via, quietHist, lastGood,
                 replHist>>

\* main.go:590-591: Write or Chmod on the watched name
WriteEvent ==
  /\ pc = "select"
  /\ events # <<>>
  /\ SameBase(Head(events))
  /\ ~Delayed(Head(events).op)
  /\ events' = Received(events)
  /\ pc' = "stat"
  /\ BeginDrain("event")
  /\ UNCHANGED <<file, exists, config, follow, locals, cancelled, shutdown,
                 left, replHist>>

\* main.go:592-593: Rename, Remove or Create on the watched name
RotateEvent ==
  /\ pc = "select"
  /\ events # <<>>
  /\ SameBase(Head(events))
  /\ Delayed(Head(events).op)
  /\ events' = Received(events)
  /\ pc' = "sleep"
  /\ UNCHANGED <<file, exists, config, follow, locals, cancelled, shutdown,
                 left, drainHist, via, quietHist, lastGood, replHist>>

\* main.go:593-594: the 80 ms are over
SleepDone ==
  /\ pc = "sleep"
  /\ pc' = "stat"
  /\ BeginDrain("rotate")
  /\ UNCHANGED <<file, exists, config, follow, locals, events, cancelled,
                 shutdown, left, replHist>>

\* main.go:602-603
TakeTick ==
  /\ pc = "select"
  /\ pc' = TickNext
  /\ BeginDrain("tick")
  /\ UNCHANGED <<file, exists, config, follow, locals, events, cancelled,
                 shutdown, left, replHist>>

\* main.go:513-516: os.Stat fails, the path names no file
StatFail ==
  /\ pc = "stat"
  /\ ~exists
  /\ pc' = AfterError
  /\ EndDrain("stat", 0, offset, carry, Len(out))
  /\ UNCHANGED <<file, exists, config, follow, events, cancelled, shutdown,
                 left, truncSeen, replHist>>

\* main.go:513-526: os.Stat succeeds
StatOk ==
  /\ pc = "stat"
  /\ exists
  /\ LET c == Len(file)
         o == OffsetAfterStat(c, offset)
         ca == CarryAfterStat(c, offset, carry)
     IN /\ offset' = o
        /\ carry' = ca
        /\ truncSeen' = (c < offset)
        /\ IF c = o
           THEN /\ pc' = "select"
                /\ EndDrain("none", c, o, ca, Len(out))
           ELSE /\ pc' = "open"
                /\ cur' = c
                /\ UNCHANGED <<start, fd, fdData, spin, fault, via, lastGood,
                               quietHist, out0, carry0>>
  /\ UNCHANGED <<file, exists, config, out, nRead, events, cancelled,
                 shutdown, left, replHist>>

\* main.go:528-531: os.Open fails
OpenFail ==
  /\ pc = "open"
  /\ ~exists
  /\ pc' = AfterError
  /\ EndDrain("open", 0, offset, carry, Len(out))
  /\ UNCHANGED <<file, exists, config, follow, events, cancelled, shutdown,
                 left, truncSeen, replHist>>

\* main.go:528-537: os.Open succeeds
OpenOk ==
  /\ pc = "open"
  /\ exists
  /\ fd' = "live"
  /\ fdData' = <<>>
  /\ start' = StartAt(offset)
  /\ pc' = "read"
  /\ UNCHANGED <<file, exists, config, follow, cur, spin, events, cancelled,
                 shutdown, left, drainHist, via, quietHist, lastGood,
                 replHist>>

\* main.go:544-564: carry and output once n bytes were read at start
Consumed(n) ==
  LET bytes == SubSeq(Handle, start + 1, start + n)
      r == ExtractLines(carry \o bytes, <<>>)
  IN IF n > 0
     THEN [carry |-> r.carry, out |-> out \o Printed(rx, r.lines)]
     ELSE [carry |-> carry, out |-> out]

\* main.go:543: ReadAt returns the bytes asked for, or fewer with io.EOF
\* when the file ends before start + want
ReadAtLen(want) == Min(want, Max(0, Len(Handle) - start))

\* main.go:538-569: one iteration of the read loop; an iteration in which
\* ReadAt returns (0, io.EOF) changes nothing but is a step all the same
ReadChunk ==
  /\ pc = "read"
  /\ LET n == ReadAtLen(Want(cur, start, chunk))
         r == Consumed(n)
     IN /\ carry' = r.carry
        /\ out' = r.out
        /\ nRead' = nRead + n
        /\ IF start + n < cur
           THEN /\ start' = start + n
                /\ spin' = IF n = 0 THEN ~spin ELSE FALSE
                /\ pc' = "read"
                /\ UNCHANGED <<offset, cur, fd, fdData, drainHist, via,
                               lastGood, quietHist>>
           ELSE /\ offset' = FinalOffset(cur, offset)
                /\ pc' = "select"
                /\ EndDrain("none", cur, FinalOffset(cur, offset), r.carry,
                            Len(r.out))
                /\ UNCHANGED truncSeen
  /\ UNCHANGED <<file, exists, config, events, cancelled, shutdown, left,
                 replHist>>

\* main.go:543-569: ReadAt fails with an error other than io.EOF after n bytes
ReadFault ==
  /\ pc = "read"
  /\ \E n \in 0..ReadAtLen(Want(cur, start, chunk)) :
       /\ n < Want(cur, start, chunk)
       /\ carry' = Consumed(n).carry
       /\ out' = Consumed(n).out
       /\ nRead' = nRead + n
       /\ EndDrain("read", 0, FinalOffset(cur, offset), Consumed(n).carry,
                   Len(Consumed(n).out))
  /\ offset' = FinalOffset(cur, offset)
  /\ pc' = AfterError
  /\ UNCHANGED <<file, exists, config, events, cancelled, shutdown, left,
                 truncSeen, replHist>>

\* ------------------------------------------------- the initial read ----
\* sc.Scan(), sc.Text() and sc.Err() of a bufio.Scanner with ScanLines and
\* sc.Buffer(buf, max) (main.go:351-356, 380-385, 461-466) on the bytes b,
\* at bytes consumed so far: the next line without its '\n', an unterminated
\* last line included; no token at the end of the bytes; bufio.ErrTooLong
\* when the line does not fit the buffer with room to spare
Scan(b, at) ==
  LET rest == SubSeq(b, at + 1, Len(b))
      nl == IndexNL(rest)
      text == IF nl = 0 THEN rest ELSE SubSeq(rest, 1, nl - 1)
  IN IF rest = <<>>
     THEN [ok |-> FALSE, text |-> <<>>, next |-> at, err |-> "none",
           eof |-> TRUE]
     ELSE IF Len(text) >= MaxLine
          THEN [ok |-> FALSE, text |-> <<>>, next |-> at, err |-> "toolong",
                eof |-> FALSE]
          ELSE [ok |-> TRUE, text |-> text,
                next |-> IF nl = 0 THEN Len(b) ELSE at + nl, err |-> "none",
                eof |-> (nl = 0)]

\* a scan in progress: position, ring, size, idx, count, lines printed, the
\* error met, whether the function has returned, and whether the scanner
\* has met the end of the file
ScanState(at, rg, sz, ix, cnt, o, e, d, ef) ==
  [at |-> at, ring |-> rg, size |-> sz, idx |-> ix, count |-> cnt,
   out |-> o, err |-> e, done |-> d, eof |-> ef]

\* sc.Scan() in the state st: a scanner that has met the end of the file
\* (its last token was the unterminated rest) reads no more
ScanFrom(b, st) ==
  IF st.eof
  THEN [ok |-> FALSE, text |-> <<>>, next |-> st.at, err |-> "none",
        eof |-> TRUE]
  ELSE Scan(b, st.at)

\* main.go:382-383: ring := make([]string, n)
NewRing(n) == [i \in 0..(n - 1) |-> <<>>]

\* the state of a scan before its first sc.Scan()
ScanStart(n) == ScanState(0, NewRing(n), 0, 0, 0, <<>>, "none", FALSE, FALSE)

\* main.go:400-403: where the oldest line of the ring is
RingStartZero(sz, ix, n) == 0
RingStart(sz, ix, n) == IF sz = n THEN ix ELSE 0

\* main.go:404-406: the lines of the ring, oldest first
RingLines(rg, sz, ix, n) ==
  [i \in 1..sz |-> rg[(RingStart(sz, ix, n) + (i - 1)) % n]]

\* main.go:389: the slot after idx
NextIdxStuck(ix, n) == ix
NextIdx(ix, n) == (ix + 1) % n

\* main.go:362: whether printFirstNFiltered stops after a printed line
FirstNever(cnt, n) == FALSE
FirstEarly(cnt, n) == cnt >= 1
FirstFull(cnt, n) == cnt >= n

\* main.go:355-370: one sc.Scan() of printFirstNFiltered and what follows it
FirstStep(b, p, n, st) ==
  LET t == ScanFrom(b, st) IN
  IF ~t.ok
  THEN [st EXCEPT !.err = t.err, !.done = TRUE, !.eof = t.eof]
  ELSE IF Matches(p, t.text)
       THEN [st EXCEPT !.at = t.next, !.out = Append(st.out, t.text),
                       !.count = st.count + 1,
                       !.done = FirstFull(st.count + 1, n), !.eof = t.eof]
       ELSE [st EXCEPT !.at = t.next, !.eof = t.eof]

\* main.go:384-408: one sc.Scan() of printLastNFiltered and what follows it
LastStep(b, p, n, st) ==
  LET t == ScanFrom(b, st) IN
  IF ~t.ok
  THEN IF t.err # "none"
       THEN [st EXCEPT !.err = t.err, !.done = TRUE, !.eof = t.eof]
       ELSE [st EXCEPT !.out = st.out \o RingLines(st.ring, st.size, st.idx, n),
                       !.done = TRUE, !.eof = t.eof]
  ELSE IF Matches(p, t.text)
       THEN [st EXCEPT !.at = t.next,
                       !.ring = [st.ring EXCEPT ![st.idx] = t.text],
                       !.idx = NextIdx(st.idx, n),
                       !.size = IF st.size < n THEN st.size + 1 ELSE st.size,
                       !.eof = t.eof]
       ELSE [st EXCEPT !.at = t.next, !.eof = t.eof]

\* main.go:466-476: one sc.Scan() of the scan of the whole file
AllStep(b, p, st) ==
  LET t == ScanFrom(b, st) IN
  IF ~t.ok
  THEN [st EXCEPT !.err = t.err, !.done = TRUE, !.eof = t.eof]
  ELSE IF Matches(p, t.text)
       THEN [st EXCEPT !.at = t.next, !.out = Append(st.out, t.text),
                       !.eof = t.eof]
       ELSE [st EXCEPT !.at = t.next, !.eof = t.eof]

\* the three scans as functions of the bytes, the filter and n
RECURSIVE FirstRun(_, _, _, _)
FirstRun(b, p, n, st) ==
  IF st.done THEN st ELSE FirstRun(b, p, n, FirstStep(b, p, n, st))

RECURSIVE LastRun(_, _, _, _)
LastRun(b, p, n, st) ==
  IF st.done THEN st ELSE LastRun(b, p, n, LastStep(b, p, n, st))

RECURSIVE AllRun(_, _, _)
AllRun(b, p, st) ==
  IF st.done THEN st ELSE AllRun(b, p, AllStep(b, p, st))

printFirstNFiltered(b, p, n) == FirstRun(b, p, n, ScanStart(0))
printLastNFiltered(b, p, n) == LastRun(b, p, n, ScanStart(n))
printAll(b, p) == AllRun(b, p, ScanStart(0))

\* main.go:370, 408: the count the two helpers return
ReturnedFirst(st) == st.count
ReturnedLast(st) == IF st.err # "none" THEN 0 ELSE st.size

\* ------------------------------------------------------- the run ----
\* The state at main.go:172: the flags are parsed, nothing was done yet.
\* The file is one of files, the filter one of pats, -t one of tails,
\* -ns and -ne are in counts, and the writer will append n bytes.
Parsed(files, pats, tails, counts, n) ==
  /\ rx \in pats
  /\ chunk = MaxChunk
  /\ file \in files
  /\ exists = TRUE
  /\ tailPtr \in tails
  /\ ns \in counts
  /\ ne \in counts
  /\ touched = FALSE
  /\ offset = 0
  /\ carry = <<>>
  /\ cur = 0
  /\ start = 0
  /\ fd = "none"
  /\ fdData = <<>>
  /\ spin = FALSE
  /\ events = <<>>
  /\ cancelled = FALSE
  /\ out = <<>>
  /\ shutdown = FALSE
  /\ off0 = 0
  /\ left = n
  /\ nRead = 0
  /\ dirty = FALSE
  /\ quiet = 0
  /\ snap = NoSnap
  /\ out0 = 0
  /\ carry0 = <<>>
  /\ via = "start"
  /\ truncSeen = FALSE
  /\ fault = "none"
  /\ lastGood = 0
  /\ replaced = FALSE
  /\ outRepl = 0
  /\ scanOff = 0
  /\ ring = <<>>
  /\ size = 0
  /\ idx = 0
  /\ count = 0
  /\ initErr = "none"
  /\ eofSeen = FALSE
  /\ status = <<>>

Boot(files, pats, tails, counts, n) ==
  /\ Parsed(files, pats, tails, counts, n)
  /\ pc = "main"
  /\ raw = <<>>
  /\ enableColor = FALSE
  /\ shown = <<>>

InitSelect == Boot(SeqsUpTo(FileByte, MaxFile), InitialPatterns, {FALSE}, 0..MaxN, 0)
InitRun == Boot(SeqsUpTo(FileByte, RunFile), InitialPatterns, BOOLEAN, 0..RunN, 0)

\* main.go:172-175, see() 428-430: what -ns and -ne together lead to
ConflictIgnored == "precheck"
ConflictNext == IF ns > 0 /\ ne > 0 THEN "fatal" ELSE "precheck"

\* main.go:172-175
CheckFlags ==
  /\ pc = "main"
  /\ pc' = ConflictNext
  /\ UNCHANGED <<asleep, drainBook, flags, render, status, scanner, touched, out, offset,
                 off0, lastGood, cancelled>>

\* main.go:177-195: os.Stat on the path, then the worker is started
PreCheck ==
  /\ pc = "precheck"
  /\ touched' = TRUE
  /\ pc' = IF exists THEN "see" ELSE "fatal"
  /\ UNCHANGED <<asleep, drainBook, flags, render, status, scanner, out, offset, off0,
                 lastGood, cancelled>>

\* main.go:415-431 and 345-353, 374-383 or 455-464: the filter is compiled,
\* the file is opened and the scanner of the selected mode is set up; only
\* the scan of the whole file is announced (main.go:460)
StartInitial ==
  /\ pc = "see"
  /\ exists
  /\ pc' = IF ns > 0 /\ ne > 0 THEN "fatal" ELSE "scan"
  /\ ring' = IF ns = 0 /\ ne > 0 THEN NewRing(ne) ELSE ring
  /\ status' = IF ns = 0 /\ ne = 0
               THEN Append(status, Status("reading", Len(out)))
               ELSE status
  /\ UNCHANGED <<asleep, drainBook, flags, render, scanOff, size, idx, count,
                 initErr, eofSeen, touched, out, offset, off0, lastGood,
                 cancelled>>

\* main.go:434-437, 445-448, 472-476: where an error of the initial read
\* leaves the worker
AfterInitialErrorIgnored == "tailcheck"
AfterInitialError == "exit"

\* main.go:345-348, 374-377 and 434-437, 445-448, or 456-459: os.Open fails,
\* the path names no file any more; the helpers return the error and see()
\* returns, the scan of the whole file ends the process with log.Fatalf
InitialOpenFail ==
  /\ pc = "see"
  /\ ~exists
  /\ pc' = IF (ns > 0) = (ne > 0) THEN "fatal" ELSE AfterInitialError
  /\ initErr' = "open"
  /\ UNCHANGED <<asleep, drainBook, flags, render, status, scanOff, ring, size,
                 idx, count, eofSeen, touched, out, offset, off0, lastGood,
                 cancelled>>

\* the scan in progress, and the step st of it taken.  When the scan has
\* ended, an error ends the worker (main.go:434-437, 445-448, 472-476);
\* otherwise the scan of the whole file takes offset from the position of
\* its handle, which has read to the end of the file (main.go:478-479), and
\* the two helpers are followed by os.Stat (main.go:439, 450)
\* main.go:478-479: f.Seek(0, io.SeekCurrent) on the handle that was
\* scanned to the end of the file, where at bytes had been read
PositionUnset(at) == 0
PositionOfHandle(at) == at

CurScan ==
  ScanState(scanOff, ring, size, idx, count, out, initErr, FALSE, eofSeen)

TakeScan(st) ==
  /\ scanOff' = st.at
  /\ ring' = st.ring
  /\ size' = st.size
  /\ idx' = st.idx
  /\ count' = st.count
  /\ out' = st.out
  /\ initErr' = st.err
  /\ eofSeen' = st.eof
  /\ pc' = IF ~st.done THEN "scan"
           ELSE IF st.err # "none" THEN AfterInitialError
           ELSE IF ns = 0 /\ ne = 0 THEN "tailcheck" ELSE "size"
  /\ offset' = IF st.done /\ st.err = "none" /\ ns = 0 /\ ne = 0
               THEN PositionOfHandle(st.at) ELSE offset
  /\ off0' = offset'
  /\ lastGood' = offset'
  /\ UNCHANGED <<asleep, drainBook, flags, render, status, touched, cancelled>>

\* main.go:432-441: -ns N
ScanFirst ==
  /\ pc = "scan"
  /\ ns > 0
  /\ TakeScan(FirstStep(file, rx, ns, CurScan))

\* main.go:443-452: -ne N
ScanLast ==
  /\ pc = "scan"
  /\ ns = 0 /\ ne > 0
  /\ TakeScan(LastStep(file, rx, ne, CurScan))

\* main.go:454-484: neither
ScanAll ==
  /\ pc = "scan"
  /\ ns = 0 /\ ne = 0
  /\ TakeScan(AllStep(file, rx, CurScan))

\* main.go:367-369, 397-399, 472-476: a read of the scanner fails, sc.Err()
\* is that error and the worker returns
ScanFault ==
  /\ pc = "scan"
  /\ ~eofSeen
  /\ initErr' = "read"
  /\ pc' = AfterInitialError
  /\ UNCHANGED <<asleep, drainBook, flags, render, status, scanOff, ring, size,
                 idx, count, eofSeen, touched, out, offset, off0, lastGood,
                 cancelled>>

\* main.go:439-441, 450-452: offset is the size os.Stat reports now, and
\* stays 0 when os.Stat fails
SizeStale(sz, at) == at
SizeNow(sz, at) == sz

InitialSize ==
  /\ pc = "size"
  /\ offset' = IF exists THEN SizeNow(Len(file), scanOff) ELSE offset
  /\ off0' = offset'
  /\ lastGood' = offset'
  /\ pc' = "tailcheck"
  /\ UNCHANGED <<asleep, drainBook, flags, render, status, scanner, touched,
                 out, cancelled>>

\* main.go:486-491: without -t the worker returns, with -t the banner of
\* follow mode is printed
AfterInitialFollow(t) == "watch"
AfterInitial(t) == IF t THEN "watch" ELSE "exit"

TailCheck ==
  /\ pc = "tailcheck"
  /\ pc' = AfterInitial(tailPtr)
  /\ status' = IF tailPtr THEN Append(status, Status("tail", Len(out)))
               ELSE status
  /\ UNCHANGED <<asleep, drainBook, flags, render, scanner, touched, out,
                 offset, off0, lastGood, cancelled>>

\* main.go:491-510, 572-577: the watcher and the ticker are created and
\* readNew() is called for the first time
StartWatch ==
  /\ pc = "watch"
  /\ pc' = "stat"
  /\ BeginDrain("start")
  /\ UNCHANGED <<file, exists, config, follow, locals, events, cancelled,
                 shutdown, left, replHist>>

\* main.go:496-507: fsnotify.NewWatcher() or watcher.Add(dir) fails
WatchFail ==
  /\ pc = "watch"
  /\ pc' = "exit"
  /\ UNCHANGED <<asleep, drainBook, flags, render, status, scanner, touched,
                 out, offset, off0, lastGood, cancelled>>

\* the writer appends one whole line, terminator included, in one write
AppendLine ==
  /\ exists
  /\ \E ln \in SeqsUpTo(Byte \ {NL}, MaxLine - 1), d \in BOOLEAN :
       /\ Len(ln) + 1 <= left
       /\ file' = file \o ln \o <<NL>>
       /\ left' = left - (Len(ln) + 1)
       /\ Notify("write", d)
  /\ Changed
  /\ UNCHANGED <<exists, config, follow, locals, pc, cancelled, shutdown,
                 drainHist, via, lastGood, replHist>>

\* --------------------------------------------------- specifications ----
\* Follow mode while the file is appended to, truncated, removed and
\* re-created by its writer, and reads may fail.
Next ==
  \/ AppendByte \/ Truncate \/ Remove \/ Create
  \/ WriteEvent \/ RotateEvent \/ SleepDone \/ TakeTick
  \/ StatFail \/ StatOk \/ OpenFail \/ OpenOk \/ ReadChunk \/ ReadFault

Spec == Init /\ [][Next]_vars

\* Follow mode while the file is only appended to: the path always names
\* the same file, so os.Stat and os.Open succeed and ReadAt returns the
\* bytes below the size that os.Stat reported.
NextAppend ==
  \/ AppendByte \/ Chmod \/ ForeignEvent \/ Cancel
  \/ Shutdown \/ IgnoreEvent \/ WriteEvent \/ TakeTick
  \/ StatOk \/ OpenOk \/ ReadChunk

SpecAppend == InitAppend /\ [][NextAppend]_vars

\* The append-only runs with the schedule the runtime gives: the worker
\* goroutine keeps running (each step of readNew is taken once it can be),
\* and <-ticker.C, ready every 250 ms, is chosen again and again by the
\* select (main.go:573, 580, 602) however many events wait beside it.
FairAppend ==
  /\ InitLive
  /\ [][NextAppend]_vars
  /\ WF_vars(StatOk)
  /\ WF_vars(OpenOk)
  /\ WF_vars(ReadChunk)
  /\ SF_vars(TakeTick)

\* Follow mode with a writer that appends and truncates in place, and an
\* interrupt signal; reads do not fail.
NextCancel ==
  \/ AppendByte \/ Truncate \/ Cancel
  \/ Shutdown \/ WriteEvent \/ TakeTick
  \/ StatOk \/ OpenOk \/ ReadChunk

\* The same schedule: the worker keeps running, and <-ctx.Done(), ready for
\* ever once cancel() was called, is chosen by the select (main.go:580-581)
\* after finitely many other choices.
FairCancel ==
  /\ InitLive
  /\ [][NextCancel]_vars
  /\ WF_vars(StatOk)
  /\ WF_vars(OpenOk)
  /\ WF_vars(ReadChunk)
  /\ SF_vars(Shutdown)

\* The initial read alone, for every file, filter and selection.
NextSelect ==
  \/ CheckFlags \/ PreCheck \/ StartInitial
  \/ ScanFirst \/ ScanLast \/ ScanAll \/ InitialSize \/ TailCheck

SpecSelect == InitSelect /\ [][NextSelect]_vars

\* the file is removed before the worker has opened it
RemoveEarly ==
  /\ pc \in {"precheck", "see"}
  /\ Remove

\* A whole run on a file that is not written to, with an interrupt signal,
\* a file that may be gone when it is to be opened, and reads that may fail.
NextRun ==
  \/ CheckFlags \/ PreCheck \/ StartInitial \/ InitialOpenFail
  \/ ScanFirst \/ ScanLast \/ ScanAll \/ ScanFault \/ InitialSize
  \/ TailCheck \/ StartWatch \/ WatchFail \/ RemoveEarly \/ Cancel
  \/ Shutdown \/ TakeTick \/ StatOk

SpecRun == InitRun /\ [][NextRun]_vars

\* The same runs with the worker goroutine scheduled: each step of main()
\* and of see() up to the end of the initial phase is taken once it can be.
FairRun ==
  /\ InitRun
  /\ [][NextRun]_vars
  /\ WF_vars(CheckFlags)
  /\ WF_vars(PreCheck)
  /\ WF_vars(StartInitial)
  /\ WF_vars(InitialOpenFail)
  /\ WF_vars(ScanFirst)
  /\ WF_vars(ScanLast)
  /\ WF_vars(ScanAll)
  /\ WF_vars(InitialSize)
  /\ WF_vars(TailCheck)

\* Follow mode with every kind of event: the writer appends, removes and
\* re-creates the file and changes its mode, other files of the directory
\* change, and os.Stat and os.Open fail while the file is away.
NextEvents ==
  \/ AppendByte \/ Remove \/ Create \/ Chmod \/ ForeignEvent
  \/ IgnoreEvent \/ WriteEvent \/ RotateEvent \/ SleepDone \/ TakeTick
  \/ StatFail \/ StatOk \/ OpenFail \/ OpenOk \/ ReadChunk

SpecEvents == InitLive /\ [][NextEvents]_vars

\* the files made of whole lines only
WholeFiles(n) == {b \in SeqsUpTo(FileByte, n) : b = <<>> \/ b[Len(b)] = NL}

\* A run with -t while the writer appends to the file byte by byte, from
\* the start of the process on.
InitGrow ==
  Boot(SeqsUpTo(FileByte, RunFile), InitialPatterns, {TRUE}, 0..RunN, GrowAppend)

NextGrow ==
  \/ CheckFlags \/ PreCheck \/ StartInitial
  \/ ScanFirst \/ ScanLast \/ ScanAll \/ InitialSize
  \/ TailCheck \/ StartWatch \/ AppendByte
  \/ WriteEvent \/ TakeTick \/ StatOk \/ OpenOk \/ ReadChunk

SpecGrow == InitGrow /\ [][NextGrow]_vars

\* A run with -t on a file of whole lines while the writer appends whole
\* lines, each in one write.
InitLines ==
  Boot(WholeFiles(RunFile), InitialPatterns, {TRUE}, 0..RunN, LinesAppend)

NextLines ==
  \/ CheckFlags \/ PreCheck \/ StartInitial
  \/ ScanFirst \/ ScanLast \/ ScanAll \/ InitialSize
  \/ TailCheck \/ StartWatch \/ AppendLine
  \/ WriteEvent \/ TakeTick \/ StatOk \/ OpenOk \/ ReadChunk

SpecLines == InitLines /\ [][NextLines]_vars

\* ------------------------------------------------------------ rendering ----
\* main.go:201-211: the color codes used below, as bytes
ansiReset == <<ESC, 91, 48, LetterM>>
ansiBold == <<ESC, 91, 49, LetterM>>
ansiRed == <<ESC, 91, 51, 49, LetterM>>
ansiGreen == <<ESC, 91, 51, 50, LetterM>>
ansiYellow == <<ESC, 91, 51, 51, LetterM>>
ansiBlue == <<ESC, 91, 51, 52, LetterM>>
ansiCyan == <<ESC, 91, 51, 54, LetterM>>

\* the bytes of the lines rendered, and the filters tried: none, r+ and err
RenderByte == {LetterE, LetterR, Digit1, Space}
\* the bytes of the lines that may hold an IP address
AddrByte == {Digit1, Dot}
RenderPatterns == {"", "r+", "err"}

\* regexp classes \d and \w, and the assertion \b between s[i] and s[i+1]
IsDigit(c) == c \in 48..57
IsWord(c) == c \in (48..57) \cup (65..90) \cup (97..122) \cup {95}
WordAt(s, i) == i >= 1 /\ i <= Len(s) /\ IsWord(s[i])
Boundary(s, i) == WordAt(s, i) # WordAt(s, i + 1)

\* number of bytes of s from position i on that are in S
RECURSIVE RunLen(_, _, _)
RunLen(s, i, S) ==
  IF i > Len(s) \/ s[i] \notin S THEN 0 ELSE 1 + RunLen(s, i + 1, S)

\* (?i): the word w is at position i of s, letter case ignored
ToLower(c) == IF c \in 65..90 THEN c + 32 ELSE c
WordIsAt(s, i, w) ==
  /\ i + Len(w) - 1 <= Len(s)
  /\ \A j \in 1..Len(w) : ToLower(s[i + j - 1]) = w[j]

\* main.go:217 and 271-284: the level words in the order of the regexp, each
\* with the color its switch case gives it
Levels ==
  << [word |-> <<100, 101, 98, 117, 103>>, color |-> ansiBlue],             \* debug
     [word |-> <<105, 110, 102, 111>>, color |-> ansiGreen],                \* info
     [word |-> <<119, 97, 114, 110>>, color |-> ansiYellow],                \* warn
     [word |-> <<119, 97, 114, 110, 105, 110, 103>>, color |-> ansiYellow], \* warning
     [word |-> <<101, 114, 114, 111, 114>>, color |-> ansiRed],             \* error
     [word |-> <<101, 114, 114>>, color |-> ansiRed],                       \* err
     [word |-> <<99, 114, 105, 116>>, color |-> ansiRed],                   \* crit
     [word |-> <<102, 97, 116, 97, 108>>, color |-> ansiRed],               \* fatal
     [word |-> <<102, 97, 105, 108>>, color |-> ansiRed] >>                 \* fail

\* the alternatives of reLvl that match at position i of s, \b on both sides
LevelsAt(s, i) ==
  {k \in 1..Len(Levels) :
     /\ Boundary(s, i - 1)
     /\ WordIsAt(s, i, Levels[k].word)
     /\ Boundary(s, i + Len(Levels[k].word) - 1)}

\* the alternative the regexp takes: the first in its order
LevelAt(s, i) == CHOOSE k \in LevelsAt(s, i) : \A j \in LevelsAt(s, i) : k <= j

\* length of the match of reLvl at position i of s, 0 if there is none
reLvl(s, i) ==
  IF LevelsAt(s, i) = {} THEN 0 ELSE Len(Levels[LevelAt(s, i)].word)

\* length of the match of reNum, \b\d+\b, at position i of s, 0 if none: the
\* whole run of digits, which must begin and end at a word boundary
reNum(s, i) ==
  IF /\ Boundary(s, i - 1)
     /\ IsDigit(s[i])
     /\ Boundary(s, i + RunLen(s, i, 48..57) - 1)
  THEN RunLen(s, i, 48..57)
  ELSE 0

\* bytes from position i of s on taken by k runs of one to three digits
\* with a dot between them, 0 if s does not go on like that
RECURSIVE Octets(_, _, _)
Octets(s, i, k) ==
  LET n == RunLen(s, i, 48..57)
  IN IF n < 1 \/ n > 3 THEN 0
     ELSE IF k = 1 THEN n
     ELSE IF i + n <= Len(s) /\ s[i + n] = Dot /\ Octets(s, i + n + 1, k - 1) > 0
          THEN n + 1 + Octets(s, i + n + 1, k - 1)
          ELSE 0

\* length of the match of reIP, \b(?:\d{1,3}\.){3}\d{1,3}\b, at position i
\* of s, 0 if none: each \d{1,3} is followed by a dot or by \b, so it takes
\* a whole run of digits
reIP(s, i) ==
  IF /\ Boundary(s, i - 1)
     /\ Octets(s, i, 4) > 0
     /\ Boundary(s, i + Octets(s, i, 4) - 1)
  THEN Octets(s, i, 4)
  ELSE 0

\* length of the match of a pass at position i, and the code put before it
PassLen(re, s, i) ==
  IF re = "reLvl" THEN reLvl(s, i)
  ELSE IF re = "reIP" THEN reIP(s, i)
  ELSE reNum(s, i)
PassColor(re, s, i) ==
  IF re = "reLvl" THEN Levels[LevelAt(s, i)].color
  ELSE IF re = "reIP" THEN ansiCyan
  ELSE ansiBold

\* re.ReplaceAllStringFunc(s, ...) from position i on: every match, leftmost
\* first and not overlapping, is put between its color code and ansiReset
RECURSIVE ReplaceAllStringFunc(_, _, _)
ReplaceAllStringFunc(re, s, i) ==
  IF i > Len(s) THEN <<>>
  ELSE IF PassLen(re, s, i) > 0
       THEN PassColor(re, s, i) \o SubSeq(s, i, i + PassLen(re, s, i) - 1)
              \o ansiReset
              \o ReplaceAllStringFunc(re, s, i + PassLen(re, s, i))
       ELSE <<s[i]>> \o ReplaceAllStringFunc(re, s, i + 1)

\* main.go:258-288.  The structured pass and the passes for timestamps,
\* URLs and paths need a byte that neither RenderByte nor AddrByte holds
\* (one of : - / { [ or a letter of http), so on these lines they return
\* the segment as it is; the passes for addresses, levels and numbers are
\* applied in the order of the code, each to the result of the one before.
colorizeGeneric(seg, enable) ==
  IF ~enable THEN seg
  ELSE ReplaceAllStringFunc("reNum",
         ReplaceAllStringFunc("reLvl",
           ReplaceAllStringFunc("reIP", seg, 1), 1), 1)

\* length of the match of the filter p at position i of s, 0 if none
FilterLen(p, s, i) ==
  IF p = "r+" THEN RunLen(s, i, {LetterR})
  ELSE IF p = "err" /\ i + 2 <= Len(s)
          /\ SubSeq(s, i, i + 2) = <<LetterE, LetterR, LetterR>> THEN 3
  ELSE 0

\* filter.FindAllStringIndex(s, -1) from position i on: the spans [s, e) of
\* the matches, counted from 0 as the code counts them
RECURSIVE FindAllStringIndex(_, _, _)
FindAllStringIndex(p, s, i) ==
  IF i > Len(s) THEN <<>>
  ELSE IF FilterLen(p, s, i) > 0
       THEN <<<<i - 1, i - 1 + FilterLen(p, s, i)>>>>
              \o FindAllStringIndex(p, s, i + FilterLen(p, s, i))
       ELSE FindAllStringIndex(p, s, i + 1)

\* main.go:293: whether renderLine overlays the matches
OverlayAlways(p, enable) == p # ""
Overlay(p, enable) == p # "" /\ enable

\* main.go:311: the bytes put inside the wrapper of the match [s, e)
MatchTextColored(rw, s, e) == colorizeGeneric(SubSeq(rw, s + 1, e), TRUE)
MatchText(rw, s, e) == SubSeq(rw, s + 1, e)

\* main.go:302-320: the loop over the spans from the k-th on, then the rest
RECURSIVE Overlaid(_, _, _, _, _)
Overlaid(rw, idxs, k, last, enable) ==
  IF k > Len(idxs)
  THEN IF last < Len(rw)
       THEN colorizeGeneric(SubSeq(rw, last + 1, Len(rw)), enable)
       ELSE <<>>
  ELSE (IF idxs[k][1] > last
        THEN colorizeGeneric(SubSeq(rw, last + 1, idxs[k][1]), enable)
        ELSE <<>>)
       \o ansiCyan \o MatchText(rw, idxs[k][1], idxs[k][2]) \o ansiReset
       \o Overlaid(rw, idxs, k + 1, idxs[k][2], enable)

\* main.go:292-322
renderLine(rw, p, enable) ==
  IF ~Overlay(p, enable) THEN colorizeGeneric(rw, enable)
  ELSE IF FindAllStringIndex(p, rw, 1) = <<>> THEN colorizeGeneric(rw, enable)
  ELSE Overlaid(rw, FindAllStringIndex(p, rw, 1), 1, 0, enable)

\* A line, a filter and the color setting are given; nothing is rendered yet.
InitRender ==
  /\ Parsed({<<>>}, RenderPatterns, {FALSE}, {0}, 0)
  /\ pc = "render"
  /\ raw \in SeqsUpTo(RenderByte, RenderLen)
  /\ enableColor \in BOOLEAN
  /\ shown = <<>>

\* main.go:292-322, as called at main.go:360, 406, 469 and 560
RenderLine ==
  /\ pc = "render"
  /\ shown' = renderLine(raw, rx, enableColor)
  /\ pc' = "rendered"
  /\ UNCHANGED <<asleep, drainBook, flags, status, raw, enableColor, scanner, touched,
                 out, offset, off0, lastGood, cancelled>>

\* main.go:258-288, called on a whole line
ColorizeGeneric ==
  /\ pc = "render"
  /\ shown' = colorizeGeneric(raw, enableColor)
  /\ pc' = "colorized"
  /\ UNCHANGED <<asleep, drainBook, flags, status, raw, enableColor, scanner, touched,
                 out, offset, off0, lastGood, cancelled>>

NextRender == RenderLine \/ ColorizeGeneric

SpecRender == InitRender /\ [][NextRender]_vars

\* A line of digits and dots, and the color setting, are given.
InitAddr ==
  /\ Parsed({<<>>}, RenderPatterns, {FALSE}, {0}, 0)
  /\ pc = "render"
  /\ raw \in SeqsUpTo(AddrByte, AddrLen)
  /\ enableColor \in BOOLEAN
  /\ shown = <<>>

SpecAddr == InitAddr /\ [][NextRender]_vars


\* ------------------------------------------------ reference notions ----
\* positions of the line terminators of a byte string
NLPositions(b) == {i \in 1..Len(b) : b[i] = NL}

\* position of the k-th line terminator of b
KthNL(b, k) ==
  CHOOSE p \in NLPositions(b) : Cardinality({q \in NLPositions(b) : q <= p}) = k

\* the newline-terminated lines of b, terminators stripped, in order
LinesOf(b) ==
  [k \in 1..Cardinality(NLPositions(b)) |->
     SubSeq(b, (IF k = 1 THEN 0 ELSE KthNL(b, k - 1)) + 1, KthNL(b, k) - 1)]

\* the bytes of b after its last line terminator
PartialOf(b) ==
  LET last == IF NLPositions(b) = {} THEN 0
              ELSE KthNL(b, Cardinality(NLPositions(b)))
  IN SubSeq(b, last + 1, Len(b))

IsPrefix(p, q) == Len(p) <= Len(q) /\ SubSeq(q, 1, Len(p)) = p

\* how far the follow engine has consumed the file
Position == IF pc = "read" THEN start ELSE offset

\* the bytes appended since follow mode was entered and consumed so far
Followed == SubSeq(file, off0 + 1, Position)

\* the matching newline-terminated lines appended since follow mode began
Expected == Printed(rx, LinesOf(SubSeq(file, off0 + 1, Len(file))))

\* all the lines of b: the newline-terminated ones, then the unterminated
\* rest if there is one
AllLines(b) ==
  LinesOf(b) \o (IF PartialOf(b) = <<>> THEN <<>> ELSE <<PartialOf(b)>>)

\* whether every line of b is below the ceiling of the scanner
Readable(b) == \A i \in 1..Len(AllLines(b)) : Len(AllLines(b)[i]) < MaxLine

\* the matching lines of the file, and those the scanner has consumed
Matching == Printed(rx, AllLines(file))
MatchingSeen == Printed(rx, AllLines(SubSeq(file, 1, scanOff)))

FirstOf(q, k) == SubSeq(q, 1, Min(k, Len(q)))
LastOf(q, k) == SubSeq(q, Len(q) - Min(k, Len(q)) + 1, Len(q))
Reverse(q) == [i \in 1..Len(q) |-> q[Len(q) + 1 - i]]
Range(q) == {q[i] : i \in 1..Len(q)}

\* the lines q as the bytes of a file, each line terminated
RECURSIVE Unlines(_)
Unlines(q) == IF q = <<>> THEN <<>> ELSE Head(q) \o <<NL>> \o Unlines(Tail(q))

\* the selection in force, and whether the initial read is over
FirstMode == ns > 0 /\ ne = 0
LastMode == ns = 0 /\ ne > 0
AllMode == ns = 0 /\ ne = 0
ScanOver == pc \in {"size", "tailcheck", "exit"}

\* the lines printed by the current/last drain
DrainOut == SubSeq(out, out0 + 1, Len(out))

\* main.go:537-568 as a function: the lines printed and the carry left by
\* one drain that reads the bytes b with a buffer of ch bytes
RECURSIVE ReadLoop(_, _, _, _)
ReadLoop(b, ca, ch, acc) ==
  IF b = <<>>
  THEN [lines |-> acc, carry |-> ca]
  ELSE LET n == Min(Len(b), ch)
           r == ExtractLines(ca \o SubSeq(b, 1, n), <<>>)
       IN ReadLoop(SubSeq(b, n + 1, Len(b)), r.carry, ch,
                   acc \o Printed(rx, r.lines))

\* ------------------------------------------------------------ claims ----

\* C1: chunk-boundary invariance.  Whatever the appends and the drains that
\* consumed the bytes appended so far, and whatever the buffer size, the
\* lines printed and the carry are those of one single drain over the same
\* bytes, for every buffer size.
C1_ChunkBoundaryInvariance ==
  pc # "read" =>
    \A ch \in 1..MaxChunk :
      /\ out = ReadLoop(Followed, <<>>, ch, <<>>).lines
      /\ carry = ReadLoop(Followed, <<>>, ch, <<>>).carry

\* a line whose bytes arrived in two drains has been printed whole
C1_Witness ==
  /\ pc = "select"
  /\ carry0 # <<>>
  /\ Len(out) > out0
  /\ IsPrefix(carry0, out[out0 + 1])
  /\ Len(out[out0 + 1]) > Len(carry0)

\* C2: drain idempotence.  Once two drains in a row have run with no change
\* of the file since the first of them began, offset, carry and the output
\* are what the first drain left.
C2_DrainIdempotence ==
  quiet = 2 =>
    /\ offset = snap.off
    /\ carry = snap.carry
    /\ Len(out) = snap.n

\* the first of the two drains printed a line, the second has returned
C2_Witness ==
  /\ quiet = 2
  /\ pc = "select"
  /\ snap.emitted > 0

\* C3: exactly-once, in-order emission.  While the file is only appended to,
\* whatever the interleaving of events, ticks, appends and the steps of the
\* drains, the lines printed are the newline-terminated lines of the bytes
\* from the starting offset up to the position consumed, filtered, in file
\* order, and every byte below that position was read exactly once.
C3_ExactlyOnceInOrder ==
  /\ out = Printed(rx, LinesOf(Followed))
  /\ nRead = Position - off0
  /\ off0 <= Position
  /\ Position <= Len(file)

\* with no filter, a drain started by an event prints a line after an
\* earlier drain printed one
C3_Witness ==
  /\ rx = ""
  /\ via = "event"
  /\ out0 > 0
  /\ Len(out) > out0

\* C4: truncation recovery.  A drain that observed a size below offset has
\* offset 0 and an empty carry before it opens the file, reads from byte 0,
\* and, the file being left alone meanwhile, prints exactly the complete
\* lines of the new content it has read and carries its trailing partial
\* line; when it returns it has read up to the size it observed.
C4_TruncationRecovery ==
  truncSeen =>
    /\ pc = "open" => (offset = 0 /\ carry = <<>>)
    /\ (pc = "read" /\ ~dirty) =>
         /\ DrainOut = Printed(rx, LinesOf(SubSeq(file, 1, start)))
         /\ carry = PartialOf(SubSeq(file, 1, start))
    /\ (pc = "select" /\ ~dirty /\ fault = "none") =>
         /\ offset = lastGood
         /\ DrainOut = Printed(rx, LinesOf(SubSeq(file, 1, offset)))
         /\ carry = PartialOf(SubSeq(file, 1, offset))

\* a drain that began with a stale carry observed a truncation and printed
\* a line of the new content
C4_Witness ==
  /\ truncSeen
  /\ pc = "select"
  /\ ~dirty
  /\ fault = "none"
  /\ carry0 # <<>>
  /\ Len(out) > out0

\* C5: while the engine waits for a wake-up, offset is the size observed by
\* the last drain that ended without a failure, and carry holds no line
\* terminator.
C5_FollowStateInvariant ==
  pc = "select" =>
    /\ offset = lastGood
    /\ \A i \in 1..Len(carry) : carry[i] # NL

\* C6: the trailing partial line is withheld.  While the file is only
\* appended to, the bytes consumed after the last line terminator are in
\* carry and in no printed line, no printed line holds a terminator, and
\* the first line a drain completes begins with the carry the drain began
\* with.
C6_PartialLineWithheld ==
  /\ carry = PartialOf(Followed)
  /\ Len(out) <= Cardinality(NLPositions(Followed))
  /\ \A i \in 1..Len(out) : NLPositions(out[i]) = {}
  /\ (Len(out) > out0 /\ Matches(rx, carry0)) => IsPrefix(carry0, out[out0 + 1])

\* a drain has returned with a non-empty carry and nothing printed for it
C6_Witness ==
  /\ pc = "select"
  /\ carry # <<>>
  /\ Len(out) = out0
  /\ nRead >= 2

\* C7: liveness by polling.  While the file is only appended to and the
\* timer is fair, the n-th matching newline-terminated line appended is
\* printed in the end unless the run is cancelled, for every n, whether the
\* notifications of the appends are delivered, missed or coalesced.
C7_LivenessByPolling ==
  \A n \in 1..LiveAppend :
    (Len(Expected) >= n) ~> (cancelled \/ (Len(out) >= n /\ IsPrefix(out, Expected)))

\* a drain started by a tick, with no notification waiting, has printed a
\* line and returned
C7_Witness ==
  /\ pc = "select"
  /\ via = "tick"
  /\ events = <<>>
  /\ ~cancelled
  /\ Len(out) > out0

\* C8: rotation survival.  Once the file was replaced by a new one or
\* truncated to nothing and rewritten, and a whole drain has run since its
\* last change without a failure, every complete matching line of the new
\* file has been printed since the replacement.
C8_RotationSurvival ==
  (replaced /\ exists /\ pc = "select" /\ quiet >= 1 /\ fault = "none") =>
    SubSeq(out, outRepl + 1, Len(out)) = Printed(rx, LinesOf(file))

\* C9: a failure of os.Stat, os.Open or ReadAt in a drain leaves the engine
\* in its wait loop, not terminated, where a tick can start another drain.
C9_ErrorsNeverFatal ==
  fault # "none" =>
    /\ pc \in {"select", "sleep"}
    /\ ~shutdown
    /\ pc = "select" => ENABLED TakeTick

\* a read has failed and the engine waits again
C9_Witness ==
  /\ fault = "read"
  /\ pc = "select"

\* C10: cancellation liveness.  Once cancel() was called, the worker leaves
\* the wait loop in the end, having printed "Shutting down see".
C10_CancellationLiveness == cancelled ~> (shutdown /\ pc = "done")

\* C11: an interrupt leads to a graceful shutdown.  When the run is over
\* and the interrupt signal had been received during it, the final status
\* line "Shutting down see" has been printed.
C11_InterruptShutsDown ==
  (cancelled /\ pc \in {"exit", "fatal", "done"}) => shutdown

\* C12: last-N selection.  For every file that is read without error and
\* every n >= 1, printLastNFiltered prints exactly the last min(n, m) of the
\* m matching lines, in file order; and after every insertion, wraparound
\* included, size = min(matches seen, n), idx is in [0, n) and is the number
\* of matches seen modulo n, and the ring read from its oldest slot is the
\* last size matching lines seen.
C12_LastNSelection ==
  LastMode =>
    /\ (ScanOver /\ initErr = "none") => out = LastOf(Matching, ne)
    /\ pc = "scan" =>
         /\ size = Min(Len(MatchingSeen), ne)
         /\ idx \in 0..(ne - 1)
         /\ idx = Len(MatchingSeen) % ne
         /\ RingLines(ring, size, idx, ne) = LastOf(MatchingSeen, ne)

\* the ring has wrapped around, lines that do not match were skipped, and
\* the lines are printed
C12_Witness ==
  /\ LastMode /\ pc = "tailcheck"
  /\ Len(Matching) > ne
  /\ Len(AllLines(file)) > Len(Matching)
  /\ Len(out) = 2 /\ out[1] # out[2]

\* C13: last-N count.  When printLastNFiltered returns without error, the
\* count it returns is the number of matching lines of the whole file.
C13_LastNTrueCount ==
  (LastMode /\ ScanOver /\ initErr = "none") =>
    ReturnedLast(CurScan) = Len(Matching)

\* C14: first-N selection.  printFirstNFiltered prints the matching lines it
\* has consumed and counts them, never more than n; once the n-th is printed
\* the scan is over and the last line consumed is that n-th line; and when
\* it returns without error the lines printed are the first min(n, m)
\* matching lines and the count returned is min(n, m).
C14_FirstNSelection ==
  FirstMode =>
    /\ out = MatchingSeen
    /\ count = Len(out)
    /\ count <= ns
    /\ (pc = "scan" /\ scanOff > 0) => count < ns
    /\ count = ns =>
         /\ ScanOver
         /\ Matches(rx, AllLines(SubSeq(file, 1, scanOff))
                          [Len(AllLines(SubSeq(file, 1, scanOff)))])
    /\ (ScanOver /\ initErr = "none") =>
         /\ out = FirstOf(Matching, ns)
         /\ ReturnedFirst(CurScan) = Min(ns, Len(Matching))

\* the scan stopped at the n-th matching line, with lines left unread and a
\* line that does not match skipped
C14_Witness ==
  /\ FirstMode /\ pc = "tailcheck"
  /\ count = ns
  /\ scanOff < Len(file)
  /\ Len(AllLines(SubSeq(file, 1, scanOff))) > count
  /\ Len(out) = 2 /\ out[1] # out[2]

\* the lines each selection prints with no filter, filtered afterwards
FilterAfterAll == Printed(rx, printAll(file, "").out)
FilterAfterFirst == Printed(rx, printFirstNFiltered(file, "", ns).out)
FilterAfterLast == Printed(rx, printLastNFiltered(file, "", ne).out)

\* C15 as stated: in each of the three modes the lines printed with the
\* filter applied during the scan are, as a set, the lines of the
\* unfiltered selection that match the filter.
C15_FilterCommutes ==
  ScanOver =>
    /\ AllMode => Range(out) = Range(FilterAfterAll)
    /\ FirstMode => Range(out) = Range(FilterAfterFirst)
    /\ LastMode => Range(out) = Range(FilterAfterLast)

\* C15 amended: filtering commutes with the selection of all lines; with
\* first-N and last-N the lines of the unfiltered selection that match are
\* among the lines printed with the filter applied during the scan, and are
\* all of them when n is at least the number of lines of the file.
C15_FilterCommutesAmended ==
  ScanOver =>
    /\ AllMode => out = FilterAfterAll
    /\ FirstMode =>
         /\ Range(FilterAfterFirst) \subseteq Range(out)
         /\ ns >= Len(AllLines(file)) => out = FilterAfterFirst
    /\ LastMode =>
         /\ Range(FilterAfterLast) \subseteq Range(out)
         /\ ne >= Len(AllLines(file)) => out = FilterAfterLast

\* first-N with a filter printed a line that the unfiltered first-N does not
\* hold
C15_Witness ==
  /\ FirstMode /\ pc = "tailcheck"
  /\ rx # ""
  /\ out # <<>>
  /\ Range(FilterAfterFirst) # Range(out)

\* C16: first/last symmetry.  For every file read without error, the lines
\* printLastNFiltered prints are, reversed, the lines printFirstNFiltered
\* prints for min(n, m) on the file with its lines in reverse order.
C16_FirstLastSymmetry ==
  (LastMode /\ ScanOver /\ initErr = "none") =>
    Reverse(out) =
      printFirstNFiltered(Unlines(Reverse(AllLines(file))), rx,
                          Min(ne, Len(Matching))).out

\* two different lines were selected out of more matching lines
C16_Witness ==
  /\ LastMode /\ pc = "tailcheck"
  /\ rx # ""
  /\ Len(Matching) > ne
  /\ Len(out) = 2 /\ out[1] # out[2]

\* C17: conflicting selection.  With -ns and -ne both positive the run goes
\* from the parsed flags to the fatal error only: no file-system call is
\* made on the path, nothing is printed, no scan and no follow starts.
C17_ConflictingSelection ==
  (ns > 0 /\ ne > 0) =>
    /\ pc \in {"main", "fatal"}
    /\ ~touched
    /\ out = <<>>
    /\ scanOff = 0
    /\ ~shutdown

\* the run has failed on the conflict
C17_Witness ==
  /\ ns > 0 /\ ne > 0
  /\ pc = "fatal"

\* C18: rendering with color disabled is the identity.  For every line and
\* every filter, present or absent, renderLine(raw, filter, false) and
\* colorizeGeneric(raw, false) return raw unchanged.
C18_RenderDisabledIdentity ==
  (~enableColor /\ pc \in {"rendered", "colorized"}) => shown = raw

\* a line with a match of the filter and a token the generic passes color
\* was rendered with color disabled
C18_Witness ==
  /\ ~enableColor /\ pc = "rendered"
  /\ rx # ""
  /\ FindAllStringIndex(rx, raw, 1) # <<>>
  /\ colorizeGeneric(raw, TRUE) # raw
  /\ shown = raw

\* the bytes s cut into color codes (from ESC to the next m) and single bytes
RECURSIVE Tokens(_)
Tokens(s) ==
  IF s = <<>> THEN <<>>
  ELSE IF Head(s) = ESC
       THEN LET n == CHOOSE k \in 1..Len(s) :
                       s[k] = LetterM /\ \A j \in 1..(k - 1) : s[j] # LetterM
            IN <<SubSeq(s, 1, n)>> \o Tokens(SubSeq(s, n + 1, Len(s)))
       ELSE <<<<Head(s)>>>> \o Tokens(Tail(s))

\* The tokens toks from the k-th on are a well-formed overlay of the line rw
\* with match spans idxs, given that pos bytes of rw were shown, closed spans
\* were wrapped and the wrapper open now is open ("none", "match" or
\* "generic"): the bytes shown are those of rw in order; the match wrapper
\* opens exactly at the start of the next span, with no other wrapper open,
\* and closes exactly at its end, with no code in between; a generic wrapper
\* opens outside the spans and closes before the next span starts.
RECURSIVE WellOverlaid(_, _, _, _, _, _, _)
WellOverlaid(toks, k, pos, closed, open, rw, idxs) ==
  IF k > Len(toks)
  THEN pos = Len(rw) /\ closed = Len(idxs) /\ open = "none"
  ELSE IF Head(toks[k]) # ESC
  THEN /\ pos < Len(rw)
       /\ toks[k] = <<rw[pos + 1]>>
       /\ IF open = "match" THEN pos < idxs[closed + 1][2]
          ELSE closed = Len(idxs) \/ pos < idxs[closed + 1][1]
       /\ WellOverlaid(toks, k + 1, pos + 1, closed, open, rw, idxs)
  ELSE IF toks[k] = ansiCyan
  THEN /\ open = "none"
       /\ closed < Len(idxs)
       /\ pos = idxs[closed + 1][1]
       /\ WellOverlaid(toks, k + 1, pos, closed, "match", rw, idxs)
  ELSE IF toks[k] = ansiReset
  THEN \/ /\ open = "match"
          /\ pos = idxs[closed + 1][2]
          /\ WellOverlaid(toks, k + 1, pos, closed + 1, "none", rw, idxs)
       \/ /\ open = "generic"
          /\ WellOverlaid(toks, k + 1, pos, closed, "none", rw, idxs)
  ELSE /\ open = "none"
       /\ closed = Len(idxs) \/ pos < idxs[closed + 1][1]
       /\ WellOverlaid(toks, k + 1, pos, closed, "generic", rw, idxs)

\* C19: match overlay.  With color enabled and a filter present, the line
\* renderLine returns shows the bytes of raw in order, each match span inside
\* exactly one match wrapper with nothing else inside it, and every generic
\* wrapper opened and closed between two spans; a line that is one match as
\* a whole is returned as that one wrapper.
C19_MatchOverlay ==
  (enableColor /\ rx # "" /\ pc = "rendered") =>
    /\ WellOverlaid(Tokens(shown), 1, 0, 0, "none", raw,
                    FindAllStringIndex(rx, raw, 1))
    /\ FindAllStringIndex(rx, raw, 1) = <<<<0, Len(raw)>>>> =>
         shown = ansiCyan \o raw \o ansiReset

\* a match was wrapped and a token of the gap after it was colored by a
\* generic pass
C19_Witness ==
  /\ enableColor /\ rx # "" /\ pc = "rendered"
  /\ FindAllStringIndex(rx, raw, 1) # <<>>
  /\ \E k \in 1..Len(Tokens(shown)) : Tokens(shown)[k] = ansiBold

\* C20: an oversized line is a local error.  When the worker has ended, the
\* initial read has consumed the whole file (or, with -ns, has printed its
\* n lines), and with -t the worker does not end on an oversized line.
C20_OversizedLineLocal ==
  pc = "exit" =>
    /\ scanOff = Len(file) \/ (FirstMode /\ count >= ns)
    /\ tailPtr => initErr = "none"

\* the positions of the worker before follow mode, and the number of times
\* the banner of follow mode was printed
InitialPhase == pc \in {"main", "precheck", "see", "scan", "size", "tailcheck"}
TailBanners == Cardinality({i \in 1..Len(status) : status[i].text = "tail"})

\* C21: output ordering of banners.  In every selection mode the banner of
\* the initial read is printed before the first line of the file; the
\* banner of follow mode is not printed while the initial read goes on, and
\* when the worker sets up follow mode it has been printed exactly once,
\* after every line of the initial read and before any line of a drain.
C21_BannerOrder ==
  /\ out # <<>> => \E i \in 1..Len(status) : status[i] = Status("reading", 0)
  /\ InitialPhase => TailBanners = 0
  /\ pc = "watch" =>
       /\ TailBanners = 1
       /\ status[Len(status)] = Status("tail", Len(out))
  /\ TailBanners <= 1

\* C22: summary when not following.  When a run with a filter, no -ns, no
\* -ne and no -t has read the file to its end, the status lines printed are
\* the banner, before the lines, and the summary of the K matching lines,
\* after them.
C22_SummaryWhenNotFollowing ==
  (pc = "exit" /\ ~tailPtr /\ AllMode /\ rx # "" /\ initErr = "none") =>
    status = <<Status("reading", 0), Status("matched", Len(Matching))>>

\* C23: termination without follow.  In a run without -t the worker never
\* goes beyond the initial phase (no banner of follow mode, no watcher, no
\* event, no drain), and it returns, which ends the process.
C23_TerminationWithoutFollow ==
  /\ [](~tailPtr =>
          /\ InitialPhase \/ pc \in {"exit", "fatal"}
          /\ TailBanners = 0
          /\ events = <<>>
          /\ nRead = 0)
  /\ (~tailPtr ~> pc \in {"exit", "fatal"})

\* a run without -t and without an interrupt has printed lines and is over
C23_Witness ==
  /\ ~tailPtr /\ ~cancelled
  /\ pc = "exit"
  /\ initErr = "none"
  /\ out # <<>>

\* C24: an I/O error during the initial read aborts the run.  Once os.Open
\* or a read of the initial read has failed, the worker is over; the banner
\* of follow mode is never printed, no watcher delivers an event and no
\* drain reads a byte, with -t as without.
C24_InitialIOErrorAborts ==
  initErr \in {"open", "read"} =>
    /\ pc \in {"exit", "fatal"}
    /\ TailBanners = 0
    /\ events = <<>>
    /\ nRead = 0
    /\ ~shutdown

\* with -t, a read failed after a line had been printed
C24_Witness ==
  /\ tailPtr
  /\ initErr = "read"
  /\ pc = "exit"
  /\ out # <<>>

\* C25: read error inside a drain.  When ReadAt fails with an error other
\* than io.EOF, the drain ends with offset at the first byte it has not
\* consumed: the position the failed read began at plus the bytes that read
\* still delivered.
C25_ReadErrorKeepsPosition ==
  [][(pc = "read" /\ fault' = "read") =>
       offset' = start + (nRead' - nRead)]_vars

\* C26: every drain terminates.  Whatever the writer does to the file while
\* a drain is in its read loop, the loop is left.
C26_DrainTerminates == (pc = "read") ~> (pc # "read")

\* the size of the file when the process started, in the runs in which the
\* writer appends up to GrowAppend bytes and does nothing else
StartSize == Len(file) + left - GrowAppend

\* follow mode is being set up or is running, and the lines printed since
\* its banner
Following == ~InitialPhase /\ pc \notin {"exit", "fatal"}
TailAt == status[CHOOSE i \in 1..Len(status) : status[i].text = "tail"].at
FollowOut == SubSeq(out, TailAt + 1, Len(out))

\* C27: follow start offset.  When follow mode is entered, offset is the
\* position the scan of the whole file ended at, or, after -ns and -ne, the
\* size of the file at the time of the query, which is not below its size
\* at startup; and the lines printed in follow mode are made of the bytes
\* from that offset on only, so that with -ns no byte between the early
\* stop and the end of the file at startup is ever printed.
C27_FollowStartOffset ==
  /\ [](Following =>
          /\ AllMode => off0 = scanOff
          /\ ~AllMode => (StartSize <= off0 /\ scanOff <= off0)
          /\ off0 <= Len(file)
          /\ FollowOut = Printed(rx, LinesOf(Followed)))
  /\ [][(pc = "size" /\ pc' = "tailcheck") => offset' = Len(file)]_vars
  /\ [][(pc = "tailcheck" /\ pc' = "watch") => offset = off0]_vars

\* after -ns stopped early, with bytes of the file left unread, follow mode
\* has printed a line that the writer appended
C27_Witness ==
  /\ FirstMode /\ pc = "select"
  /\ scanOff < StartSize
  /\ FollowOut # <<>>

\* follow mode is at rest with the whole file consumed
CaughtUp == Following /\ pc = "select" /\ offset = Len(file)

\* the size of the file when the process started, in the runs in which the
\* writer appends whole lines, up to LinesAppend bytes
StartLines == Len(file) + left - LinesAppend

\* C28: no loss around the scan of the whole file.  While the writer
\* appends whole lines, the lines printed are at any time the matching
\* lines of the part of the file consumed so far, by the scan and then by
\* the drains, each once and in order; follow mode starts where the scan
\* ended; and when follow mode is at rest with the file consumed, every
\* matching line of the file has been printed once.
C28_NoLossAroundFullScan ==
  AllMode =>
    /\ pc = "scan" => out = Printed(rx, LinesOf(SubSeq(file, 1, scanOff)))
    /\ pc \in {"tailcheck", "watch"} => offset = scanOff
    /\ Following =>
         /\ off0 = scanOff
         /\ out = Printed(rx, LinesOf(SubSeq(file, 1, Position)))
    /\ CaughtUp => out = Printed(rx, LinesOf(file))

\* a line appended during the scan was printed by the scan, and a line
\* appended later by a drain
C28_Witness ==
  /\ AllMode /\ CaughtUp
  /\ scanOff > StartLines
  /\ Len(out) > TailAt
  /\ TailAt > 0

\* C29: no loss around last-N with follow.  While the writer appends whole
\* lines, when follow mode is at rest with the file consumed, it has
\* printed every matching line appended after the scan of the last-N
\* selection had reached the end of the file.
C29_NoLossAroundLastN ==
  (LastMode /\ CaughtUp) =>
    FollowOut = Printed(rx, LinesOf(SubSeq(file, scanOff + 1, Len(file))))

\* C30: line integrity across the handoff.  After a scan of the whole
\* file, once follow mode has consumed a file whose last line is
\* terminated, the lines printed by the scan and by follow mode together
\* are the matching lines of the file, each once and whole.
C30_HandoffLineIntegrity ==
  (AllMode /\ CaughtUp /\ file # <<>> /\ file[Len(file)] = NL) =>
    out = Printed(rx, LinesOf(file))

\* C31: STOPPED is terminal and reached only by cancellation.  Once the
\* banner of follow mode is printed the worker has ended only if the
\* cancellation was received and acknowledged, and once it has ended no
\* drain runs and nothing more is printed.
C31_StoppedOnlyByCancel ==
  (tailPtr /\ TailBanners = 1 /\ pc \in {"exit", "done"}) =>
    /\ cancelled
    /\ shutdown

\* C32: polling fallback.  Whether or not the watcher could be created and
\* subscribed to the directory, the worker goes on from there to its first
\* drain, and with it to the loop that the ticker wakes.
C32_PollingFallback ==
  [][(pc = "watch" /\ pc' # "watch") => pc' = "stat"]_vars

\* the worker is inside readNew()
Draining == pc \in {"stat", "open", "read"}

\* C33: drains are strictly sequential.  A drain begins only while the
\* worker waits (or has slept after a rotation event) and never while one
\* runs; leaving the wait takes exactly one wake-up, the event at the head
\* of the channel or a tick; a drain that runs goes on or returns to the
\* wait; events leave the channel only at the wait, one at a time; and
\* offset, carry and the output change only in steps of a drain.
C33_DrainsSequential ==
  [][ /\ (pc' = "stat" /\ pc # "stat") => pc \in {"select", "sleep"}
      /\ (pc = "select" /\ pc' \in {"stat", "sleep"}) =>
           \/ events' = events /\ pc' = "stat" /\ via' = "tick"
           \/ /\ events # <<>> /\ events' = Tail(events)
              /\ pc' = "stat" => via' = "event"
      /\ Draining => pc' \in {"stat", "open", "read", "select"}
      /\ events' # events =>
           \/ Len(events') = Len(events) + 1
           \/ pc = "select" /\ Len(events') = Len(events) - 1
      /\ (offset' # offset \/ carry' # carry \/ out' # out) => Draining
    ]_vars

\* a drain started by an event runs while the next event already waits
C33_Witness ==
  /\ pc = "read"
  /\ via = "event"
  /\ events # <<>>
  /\ Head(events).name = "base"

\* C34: cancellation is checked first.  When the worker is at the wait and
\* the cancellation has been raised, its next step stops it: it starts no
\* drain and no sleep, whatever event or tick is ready at the same time.
C34_CancellationFirst ==
  [][(pc = "select" /\ cancelled) => pc' \in {"select", "done"}]_vars

\* C35: events for other files are ignored.  When the worker takes from
\* the channel an event whose name is not the followed file's, it stays at
\* the wait: no drain and no sleep begins, nothing is printed, nothing is
\* read, and offset and carry are as before.
C35_ForeignEventIgnored ==
  [][(/\ pc = "select"
      /\ events # <<>>
      /\ Head(events).name # "base"
      /\ events' = Tail(events))
     => /\ pc' = "select"
        /\ UNCHANGED <<offset, carry, out, nRead, via, out0, cur, start>>
    ]_vars

\* an event for another file waits at the head of the channel while bytes
\* of the followed file are still unread, a matching line among them
C35_Witness ==
  /\ pc = "select"
  /\ events # <<>>
  /\ Head(events).name = "other"
  /\ offset < Len(file)
  /\ Printed(rx, LinesOf(SubSeq(file, offset + 1, Len(file)))) # <<>>

IsCode(t) == Head(t) = ESC
RECURSIVE Strip(_)
Strip(toks) ==
  IF toks = <<>> THEN <<>>
  ELSE (IF IsCode(Head(toks)) THEN <<>> ELSE Head(toks)) \o Strip(Tail(toks))

\* The spans of the tokens from the k-th on are flat: a color code opens a
\* span only when none is open, and ansiReset closes the one that is open.
RECURSIVE Flat(_, _, _)
Flat(toks, k, open) ==
  IF k > Len(toks) THEN ~open
  ELSE IF ~IsCode(toks[k]) THEN Flat(toks, k + 1, open)
  ELSE IF toks[k] = ansiReset THEN open /\ Flat(toks, k + 1, FALSE)
  ELSE ~open /\ Flat(toks, k + 1, TRUE)

\* C37: generic coloring never re-colors inside a tagged span.  With color
\* enabled the result of colorizeGeneric is the segment with color codes
\* put in, and its spans are disjoint and never nested: no pass puts a code
\* inside a span that an earlier pass has wrapped.
C37_GenericSpansFlat ==
  (enableColor /\ pc = "colorized") =>
    /\ Strip(Tokens(shown)) = raw
    /\ Flat(Tokens(shown), 1, FALSE)

\* C38: the filter is applied on every path.  Every line printed, by the
\* initial read in any selection and by the drains, matches the filter; no
\* complete line stays in carry; and of the complete lines a drain has
\* consumed exactly the matching ones were printed, in order, the others
\* being consumed without output.
C38_FilterOnEveryPath ==
  /\ \A i \in 1..Len(out) : Matches(rx, out[i])
  /\ \A i \in 1..Len(carry) : carry[i] # NL
  /\ Following =>
       /\ carry = PartialOf(Followed)
       /\ FollowOut = SelectSeq(LinesOf(Followed), LAMBDA l : Matches(rx, l))

\* with a filter set, the initial read has printed a line and the drains
\* have printed a line and consumed another without printing it
C38_Witness ==
  /\ rx # ""
  /\ CaughtUp
  /\ TailAt > 0
  /\ FollowOut # <<>>
  /\ Len(FollowOut) < Len(LinesOf(Followed))

====
